---- MODULE Spec2Model ----
(***************************************************************************)
(* Model of crux-trade-api: the payment-quote engine                        *)
(* (src/src/payments/payments.service.ts) over the payments_quotes table,   *)
(* the wallet-session service (src/unnamed/part_008) over wallet_sessions   *)
(* and the bet service (src/src/bets/bets.service.ts) over bets.            *)
(* Every await on the store is a suspension point: an operation is          *)
(* modelled as one action per store operation, each with the synchronous    *)
(* code that follows it up to the next await, and several calls interleave  *)
(* freely with each other and with the clock.  Each service has its own     *)
(* specification; the variables of the other services stay as initialised.  *)
(* The odds and quote-amount computations are applied to inputs drawn at    *)
(* the start, and the rate-limit guard                                      *)
(* (src/src/common/guards/rate-limit.guard.ts) has a specification of its   *)
(* own with a finer clock.                                                  *)
(***************************************************************************)
EXTENDS Integers, Sequences, FiniteSets, TLC

\* ---------------------------------------------------------------- bounds
\* The clock advances in steps of TickMs milliseconds, at most MaxTicks
\* times: one step takes a quote created at time 0 past its deadline.
TickMs == 600001
MaxTicks == 1
\* Total number of confirmPayment calls started in one behaviour.
MaxCalls == 3
\* Total number of store operations that fail in one behaviour.
MaxStoreFailures == 1

\* Concurrent request slots and the quote ids createQuote may generate.
Calls == {"c1", "c2"}
QuoteIds == {"q1", "q2"}

\* ------------------------------------------------------ program constants
\* X402_QUOTE_TTL_SECONDS default.
ttlSeconds == 600
\* Number of hex characters isTxHashValid's pattern requires after "0x".
TxHashHexLen == 64

HexChars ==
  {"0", "1", "2", "3", "4", "5", "6", "7", "8", "9",
   "a", "b", "c", "d", "e", "f", "A", "B", "C", "D", "E", "F"}

\* A string is modelled as the sequence of its characters.
Repeat(ch, n) == [i \in 1..n |-> ch]

\* tx_hash NULL / txHash undefined.
Null == ""
NoQuoteId == ""

\* The tx hashes clients submit, by name: two well-formed ones and two
\* malformed ones (one character short, a non-hex character).  HashText
\* gives the characters of each; distinct names have distinct texts, so
\* comparing names is comparing the strings.
HashA == "hashA"
HashB == "hashB"
BadShort == "badShort"
BadChar == "badChar"
TxHashes == {HashA, HashB, BadShort, BadChar}

HashText(h) ==
  CASE h = HashA -> <<"0", "x">> \o Repeat("a", TxHashHexLen)
    [] h = HashB -> <<"0", "x">> \o Repeat("B", TxHashHexLen)
    [] h = BadShort -> <<"0", "x">> \o Repeat("a", TxHashHexLen - 1)
    [] h = BadChar ->
         <<"0", "x">> \o Repeat("a", TxHashHexLen - 1) \o <<"g">>

\* Error messages thrown by PaymentsService.
ErrLoad == "Load quote failed"
ErrNotFound == "Quote not found"
ErrDifferentHash == "Quote already paid with a different txHash"
ErrExpired == "Quote expired"
ErrInvalidHash == "Invalid txHash format"
ErrHashUsed == "txHash already used for another quote"
ErrConfirm == "Confirm payment failed"
ErrMissingHash == "Missing txHash"
ErrLookup == "Lookup payment failed"
ErrNotConfirmed == "Payment not confirmed"
Paid == "paid"
Pending == "pending"

VARIABLES
  now,        \* Date.now(), in milliseconds
  quotes,     \* the payments_quotes table: quote_id -> row
  pc,         \* the await each confirmPayment call in progress is at
  args,       \* (quoteId, txHash) of each call in progress
  started,    \* number of calls started so far
  failures,   \* number of store operations that have failed so far
  response,   \* the last response sent: its request, outcome and history
  succeeded,  \* history: the (quoteId, txHash) pairs a call returned paid for
  paidLate,   \* history: the quotes written paid after their deadline
  flags,      \* history, per call in progress: facts about its execution
  lookup      \* the last assertPaid call: its hash and its outcome

\* ------------------------------------------------- wallet sessions: state
\* (src/unnamed/part_008 over the wallet_sessions table of part_006.)
VARIABLES
  sessions,   \* the wallet_sessions table: id -> row
  wpc,        \* the await each verify call in progress is at
  wargs,      \* (sessionId, signature, minted token) of each call in progress
  wflags,     \* history, per call in progress: facts about its execution
  wresponse,  \* the last verify response sent
  granted,    \* history: the number of tokens verify returned, per session
  rejected    \* history: the sessions a verify call found the signature bad for

walletVars == <<sessions, wpc, wargs, wflags, wresponse, granted, rejected>>

\* The session ids gen_random_uuid() may produce, the wallets that connect
\* (address and type: an EVM address in checksum case, a Solana base-58
\* public key) and the keys that sign, each named by its address.
SessionIds == {"s1", "s2"}
Wallets == {<<"0xAA", "evm">>, <<"SoLKey", "solana">>}
Signers == {"0xAA", "0xBB", "SoLKey"}

\* connect: 5 minutes; verify: 24 hours.
challengeTtlMs == 5 * 60 * 1000
verifiedTtlMs == 24 * 60 * 60 * 1000

NoSessionId == ""
NoSignature == [signer |-> "", message |-> <<>>]
\* A signature string that does not decode: verifyMessage throws.
Malformed == [signer |-> "malformed", message |-> <<>>]
NoToken == [sessionId |-> NoSessionId, iat |-> 0]

\* Outcomes of verify: the UnauthorizedException thrown at lines 79, 84, 89
\* and 101 of part_008, and the normal return.
ErrNoSession == "session does not exist"
ErrSessionExpired == "session expired"
ErrSessionUsed == "session already used"
ErrBadSignature == "signature verification failed"
Granted == "granted"

NoWArgs == [sessionId |-> NoSessionId, signature |-> NoSignature,
            sessionToken |-> NoToken]
\* What is recorded about a verify call: whether a verify call on the same
\* session had returned a token, or had found the signature bad, before it
\* started, and whether one of its store operations failed.
NoWFlags == [afterGrant |-> FALSE, afterRejection |-> FALSE,
             storeFailed |-> FALSE]
NoWResponse ==
  [sessionId |-> NoSessionId, signature |-> NoSignature, kind |-> Pending,
   sessionToken |-> NoToken, flags |-> NoWFlags]

WalletInit ==
  /\ sessions = <<>>
  /\ wpc = [c \in Calls |-> "idle"]
  /\ wargs = [c \in Calls |-> NoWArgs]
  /\ wflags = [c \in Calls |-> NoWFlags]
  /\ wresponse = NoWResponse
  /\ granted = [s \in SessionIds |-> 0]
  /\ rejected = {}

\* ----------------------------------------------------------- bets: state
\* (src/src/bets/bets.service.ts over the bets table of part_006.)
VARIABLES
  bets,       \* the bets table: id -> row
  bpc,        \* the await each confirmBet call in progress is at
  bargs,      \* the arguments and locals of each call in progress
  bresponse   \* the last prepareBet or confirmBet response sent

betVars == <<bets, bpc, bargs, bresponse>>

\* The bet ids gen_random_uuid() may produce and the addresses of callers.
BetIds == {"b1", "b2"}
BetAddresses == {"0xAA", "0xaa", "0xbb"}
\* The payment signatures clients submit.
PaymentSignatures == {"paySigA", "paySigB"}

\* Amounts are counted in hundredths of a USDC; the number NaN is coded as
\* -1 (no amount used here is negative) and compared by LessThan only.
NaN == 0 - 1
MIN_BET == 10
MAX_BET == 10000
Amounts == {5, 10, 10000, 10001, 15000, NaN}

NoBetId == ""
NoAddress == ""
NoVerification == [isValid |-> FALSE, txHash |-> Null]

\* Outcomes of prepareBet and confirmBet: the exceptions thrown at lines
\* 58, 66, 106, 153, 157, 176 and 192 of bets.service.ts.
ErrAmount == "bet amount out of range"
ErrNoPrediction == "prediction not found"
ErrCreateBet == "create bet failed"
ErrBetNotFound == "bet not found"
ErrProcessed == "bet already processed"
ErrPayment == "payment verification failed"
ErrUpdateBet == "update bet failed"
Prepared == "prepared"
Confirmed == "confirmed"

NoBArgs ==
  [betId |-> NoBetId, walletAddress |-> NoAddress, paymentSignature |-> "",
   verification |-> NoVerification]
NoBResponse ==
  [op |-> "none", betId |-> NoBetId, walletAddress |-> NoAddress,
   amount |-> 0, kind |-> Pending, txHash |-> Null]

BetInit ==
  /\ bets = <<>>
  /\ bpc = [c \in Calls |-> "idle"]
  /\ bargs = [c \in Calls |-> NoBArgs]
  /\ bresponse = NoBResponse

\* ------------------------------------------------- computations: state
\* calculateOdds (bets.service.ts) and calculateAmount (payments.service.ts)
\* read nothing but their arguments: each is applied to an input drawn at
\* the start.
VARIABLES
  calc        \* the computation under way: its input and, once made, its result

\* No computation is under way.
NoCalc == [op |-> "none"]
\* The result of a computation not made yet.
NoResult == 0 - 1

\* ------------------------------------------------------ rate limit: state
\* (src/src/common/guards/rate-limit.guard.ts.)
VARIABLES
  requestRecords,  \* the guard's Map: client id -> (count, resetTime)
  decision,        \* the last canActivate call: its request and its outcome
  admits           \* history: the number of requests admitted, per client
                   \* id and time of the request

rateVars == <<requestRecords, decision, admits>>

\* The clock of the guard advances in steps of RateTickMs milliseconds, at
\* most MaxRateTicks times: two steps reach the reset time of a window
\* opened at time 0, three pass it.
RateTickMs == 30000
MaxRateTicks == 3
\* The limits @RateLimit sets on a handler range over 1..MaxLimit.
MaxLimit == 2

\* private defaultLimit, defaultWindowMs.
defaultLimit == 30
defaultWindowMs == 60 * 1000

\* HttpStatus.TOO_MANY_REQUESTS
TooManyRequests == 429

\* The requests the guard sees: their x-api-key header and their address
\* (absent: Null).
Requests ==
  {[apiKey |-> "k1", ip |-> "10.0.0.1"], [apiKey |-> Null, ip |-> "10.0.0.1"],
   [apiKey |-> Null, ip |-> Null]}

NoRecord == [count |-> 0, resetTime |-> 0]
\* A decision: the client and the options of the request, its time, the
\* outcome (true was returned, or an HttpException of some status was
\* thrown) and the client's record as the call found it.
NoDecision ==
  [clientId |-> "", limit |-> 0, at |-> 0, returned |-> FALSE, status |-> 0,
   before |-> NoRecord, hadRecord |-> FALSE]

RateInit ==
  /\ requestRecords = <<>>
  /\ decision = NoDecision
  /\ admits = <<>>

vars ==
  <<now, quotes, pc, args, started, failures, response, succeeded, paidLate,
    flags, lookup, walletVars, betVars, calc, rateVars>>

\* What the payment-quote engine's confirm and create operations never touch.
outsideConfirm == <<lookup, walletVars, betVars, calc, rateVars>>

\* What the wallet-session service never touches.
outsideWallet ==
  <<quotes, pc, args, response, succeeded, paidLate, flags, lookup, betVars,
    calc, rateVars>>

\* ------------------------------------------------------------- helpers
NoRow == [status |-> "none", tx_hash |-> Null, deadline |-> 0]
NoData == [found |-> FALSE, error |-> FALSE, row |-> NoRow]
NoArgs == [quoteId |-> NoQuoteId, txHash |-> Null]

\* What is recorded about a call: whether an identical call had returned
\* paid before it started, whether the quote's deadline had passed when it
\* started, and whether one of its store operations failed.
NoFlags ==
  [afterSuccess |-> FALSE, deadlinePassedAtCall |-> FALSE,
   storeFailed |-> FALSE]

\* A response: the request it answers, the value returned (kind paid) or the
\* error thrown, the await the call answered from, and the call's flags.
NoResponse ==
  [request |-> NoArgs, kind |-> Pending, txHash |-> Null, from |-> "idle",
   flags |-> NoFlags]

\* The value a call returns (kind paid) or the error it throws.
Thrown(msg) == [kind |-> msg, txHash |-> Null]

\* Variant: the comparison is inverted.
isExpired_Inverted(quote) == now < quote.deadline

isExpired(quote) == now > quote.deadline

\* Variant: a quote counts as paid only while its deadline has not passed.
isPaid_UnlessExpired(quote) ==
  quote.status = "paid" /\ ~(now > quote.deadline)

\* quote.status === 'paid'
isPaid(quote) == quote.status = "paid"

\* Variant: every resubmitted hash is taken to match the stored one.
txHashMatches_Always(quote, txHash) == TRUE

\* !(quote.txHash !== txHash)
txHashMatches(quote, txHash) == quote.tx_hash = txHash

\* Variant: the pattern does not fix the number of hex characters.
isTxHashValid_AnyLength(txHash) ==
  LET text == HashText(txHash)
  IN  /\ Len(text) > 2
      /\ text[1] = "0"
      /\ text[2] = "x"
      /\ \A i \in 3..Len(text) : text[i] \in HexChars

\* /^0x[a-fA-F0-9]{64}$/.test(txHash)
isTxHashValid(txHash) ==
  LET text == HashText(txHash)
  IN  /\ Len(text) = 2 + TxHashHexLen
      /\ text[1] = "0"
      /\ text[2] = "x"
      /\ \A i \in 3..Len(text) : text[i] \in HexChars

buildPaidResponse(quote) ==
  IF quote.tx_hash = Null
    THEN Thrown(ErrMissingHash)
    ELSE [kind |-> Paid, txHash |-> quote.tx_hash]

\* No assertPaid call has been made.
NoLookup == [txHash |-> Null, kind |-> Pending, quoteId |-> NoQuoteId]

\* .maybeSingle() on the ids of the rows a select matches: the row when
\* there is exactly one, null when there is none, an error when there are
\* several or when the store fails.
maybeSingle(rows, storeOk) ==
  IF ~storeOk \/ Cardinality(rows) > 1
    THEN [error |-> TRUE, found |-> FALSE, id |-> NoQuoteId]
  ELSE IF rows = {}
    THEN [error |-> FALSE, found |-> FALSE, id |-> NoQuoteId]
  ELSE [error |-> FALSE, found |-> TRUE, id |-> CHOOSE q \in rows : TRUE]

\* The outcomes a store operation can have: it succeeds (TRUE) or returns
\* an error (FALSE).
StoreOutcomes == IF failures < MaxStoreFailures THEN BOOLEAN ELSE {TRUE}

StoreOp(storeOk) ==
  /\ storeOk \in StoreOutcomes
  /\ failures' = IF storeOk THEN failures ELSE failures + 1

\* ---------------------------------------------------------------- Init
\* The state after construction of the services.
ServicesInit ==
  /\ now = 0
  /\ quotes = <<>>
  /\ pc = [c \in Calls |-> "idle"]
  /\ args = [c \in Calls |-> NoArgs]
  /\ started = 0
  /\ failures = 0
  /\ response = NoResponse
  /\ succeeded = {}
  /\ paidLate = {}
  /\ flags = [c \in Calls |-> NoFlags]
  /\ lookup = NoLookup
  /\ WalletInit
  /\ BetInit
  /\ RateInit

Init ==
  /\ ServicesInit
  /\ calc = NoCalc

\* ------------------------------------------------------------- actions
\* The wall clock advances.
Tick ==
  /\ now < MaxTicks * TickMs
  /\ now' = now + TickMs
  /\ UNCHANGED <<quotes, pc, args, started, failures, response, succeeded,
                 paidLate, flags>>
  /\ UNCHANGED outsideConfirm

\* createQuote: insert a row with status quoted, tx_hash NULL and
\* deadline now + ttl.  When the insert fails (a store error, or the
\* generated quote_id already exists: quote_id is UNIQUE) createQuote throws
\* and nothing changes, so only the successful insert is a step.
createQuote(q) ==
  /\ q \notin DOMAIN quotes
  /\ quotes' = quotes @@
       (q :> [status |-> "quoted", tx_hash |-> Null,
              deadline |-> now + ttlSeconds * 1000])
  /\ UNCHANGED <<now, pc, args, started, failures, response, succeeded,
                 paidLate, flags>>
  /\ UNCHANGED outsideConfirm

\* Call c, made with request rq and flags fl, returns r or throws it from
\* the await at, and the request is over.
Finish(c, rq, fl, at, r) ==
  /\ pc' = [pc EXCEPT ![c] = "idle"]
  /\ args' = [args EXCEPT ![c] = NoArgs]
  /\ flags' = [flags EXCEPT ![c] = NoFlags]
  /\ response' =
       [request |-> rq, kind |-> r.kind, txHash |-> r.txHash, from |-> at,
        flags |-> fl]
  /\ succeeded' =
       IF r.kind = Paid THEN succeeded \cup {<<rq.quoteId, r.txHash>>}
       ELSE succeeded

\* Call c, made with request rq and flags fl, goes on to the await label.
Goto(c, rq, fl, label) ==
  /\ pc' = [pc EXCEPT ![c] = label]
  /\ args' = [args EXCEPT ![c] = rq]
  /\ flags' = [flags EXCEPT ![c] = fl]
  /\ UNCHANGED <<response, succeeded>>

\* The flags of call c after a store operation with outcome storeOk.
After(c, storeOk) == [flags[c] EXCEPT !.storeFailed = @ \/ ~storeOk]

\* A client calls confirmPayment(quoteId, txHash):
\* select * from payments_quotes where quote_id = quoteId (maybeSingle),
\* then the checks up to the next await.
Load(c, quoteId, txHash, storeOk) ==
  /\ pc[c] = "idle"
  /\ started < MaxCalls
  /\ started' = started + 1
  /\ StoreOp(storeOk)
  /\ LET rq == [quoteId |-> quoteId, txHash |-> txHash]
         fl == [afterSuccess |-> <<quoteId, txHash>> \in succeeded,
                deadlinePassedAtCall |->
                  quoteId \in DOMAIN quotes /\ now > quotes[quoteId].deadline,
                storeFailed |-> ~storeOk]
         data ==
           IF ~storeOk THEN [found |-> FALSE, error |-> TRUE, row |-> NoRow]
           ELSE IF quoteId \in DOMAIN quotes
             THEN [found |-> TRUE, error |-> FALSE, row |-> quotes[quoteId]]
             ELSE NoData
         quote == data.row
     IN  IF data.error THEN Finish(c, rq, fl, "load", Thrown(ErrLoad))
         ELSE IF ~data.found
           THEN Finish(c, rq, fl, "load", Thrown(ErrNotFound))
         ELSE IF isPaid(quote)
           THEN IF ~txHashMatches(quote, txHash)
                  THEN Finish(c, rq, fl, "load", Thrown(ErrDifferentHash))
                  ELSE Finish(c, rq, fl, "load", buildPaidResponse(quote))
         ELSE IF isExpired(quote) THEN Goto(c, rq, fl, "expire")
         ELSE IF ~isTxHashValid(txHash)
           THEN Finish(c, rq, fl, "load", Thrown(ErrInvalidHash))
         ELSE Goto(c, rq, fl, "preCheck")
  /\ UNCHANGED <<now, quotes, paidLate>>
  /\ UNCHANGED outsideConfirm

\* update payments_quotes set status = 'expired' where quote_id = quoteId;
\* the result of the update is not inspected, then 'Quote expired' is thrown.
Expire(c, storeOk) ==
  /\ pc[c] = "expire"
  /\ StoreOp(storeOk)
  /\ LET q == args[c].quoteId
     IN  quotes' = IF storeOk /\ q \in DOMAIN quotes
                     THEN [quotes EXCEPT ![q].status = "expired"]
                     ELSE quotes
  /\ Finish(c, args[c], After(c, storeOk), "expire", Thrown(ErrExpired))
  /\ UNCHANGED <<now, started, paidLate>>
  /\ UNCHANGED outsideConfirm

\* select quote_id from payments_quotes where tx_hash = txHash; only data is
\* destructured, so a failed select yields null and is read as [].
PreCheck(c, storeOk) ==
  /\ pc[c] = "preCheck"
  /\ StoreOp(storeOk)
  /\ LET quoteId == args[c].quoteId
         existing ==
           IF storeOk
             THEN {q \in DOMAIN quotes : quotes[q].tx_hash = args[c].txHash}
             ELSE {}
     IN  IF \E q \in existing : q # quoteId
           THEN Finish(c, args[c], After(c, storeOk), "preCheck",
                       Thrown(ErrHashUsed))
           ELSE Goto(c, args[c], After(c, storeOk), "confirm")
  /\ UNCHANGED <<now, quotes, started, paidLate>>
  /\ UNCHANGED outsideConfirm

\* update payments_quotes set status = 'paid', tx_hash = txHash
\* where quote_id = quoteId, returning the row (single).
Confirm(c, storeOk) ==
  /\ pc[c] = "confirm"
  /\ StoreOp(storeOk)
  /\ LET q == args[c].quoteId
         updated == [quotes[q] EXCEPT !.status = "paid",
                                      !.tx_hash = args[c].txHash]
     IN  IF storeOk
           THEN /\ quotes' = [quotes EXCEPT ![q] = updated]
                /\ paidLate' = IF now > quotes[q].deadline
                                 THEN paidLate \cup {q} ELSE paidLate
                /\ Finish(c, args[c], After(c, storeOk), "confirm",
                          buildPaidResponse(updated))
           ELSE /\ UNCHANGED <<quotes, paidLate>>
                /\ Finish(c, args[c], After(c, storeOk), "confirm",
                          Thrown(ErrConfirm))
  /\ UNCHANGED <<now, started>>
  /\ UNCHANGED outsideConfirm

confirmPayment(c) ==
  \/ \E q \in QuoteIds, h \in TxHashes, storeOk \in BOOLEAN :
       Load(c, q, h, storeOk)
  \/ \E storeOk \in BOOLEAN : Expire(c, storeOk)
  \/ \E storeOk \in BOOLEAN : PreCheck(c, storeOk)
  \/ \E storeOk \in BOOLEAN : Confirm(c, storeOk)

Next ==
  \/ Tick
  \/ \E q \in QuoteIds : createQuote(q)
  \/ \E c \in Calls : confirmPayment(c)

Spec == Init /\ [][Next]_vars

\* GlobalExceptionFilter.catch: the HTTP status an exception is answered
\* with.
catch(exception) ==
  IF exception.class = "BusinessException" THEN exception.httpStatus
  ELSE IF exception.class = "HttpException" THEN exception.status
  ELSE 500

\* The HTTP status of the last response of POST payments/x402/confirm: 201
\* when confirmPayment returned, and the filter's answer to the Error it
\* threw otherwise (every throw in PaymentsService is `throw new Error`).
confirmStatus ==
  IF response.kind = Paid THEN 201
  ELSE catch([class |-> "Error", message |-> response.kind])

\* assertPaid(txHash): select * from payments_quotes where tx_hash = txHash
\* and status = 'paid' (maybeSingle), one store operation.
assertPaid(txHash, storeOk) ==
  /\ StoreOp(storeOk)
  /\ LET rows == {q \in DOMAIN quotes :
                   quotes[q].tx_hash = txHash /\ quotes[q].status = "paid"}
         data == maybeSingle(rows, storeOk)
         r == IF data.error THEN Thrown(ErrLookup)
              ELSE IF ~data.found THEN Thrown(ErrNotConfirmed)
              ELSE buildPaidResponse(quotes[data.id])
     IN  lookup' = [txHash |-> txHash, kind |-> r.kind,
                    quoteId |-> IF r.kind = Paid THEN data.id ELSE NoQuoteId]
  /\ UNCHANGED <<now, quotes, pc, args, started, response, succeeded,
                 paidLate, flags, walletVars, betVars, calc, rateVars>>

\* The quote engine with the lookup dependent flows make by hash.
LookupNext ==
  \/ Next
  \/ \E h \in TxHashes, storeOk \in BOOLEAN : assertPaid(h, storeOk)

LookupSpec == Init /\ [][LookupNext]_vars

\* ---------------------------------------------- wallet sessions: actions
\* String.prototype.toLowerCase on the addresses used here.
toLowerCase(address) ==
  CASE address = "0xAA" -> "0xaa"
    [] address = "0xBB" -> "0xbb"
    [] address = "SoLKey" -> "solkey"
    [] OTHER -> address

\* The challenge text: fixed wording around the address, nonce and timestamp.
generateChallenge(walletAddress, nonce, timestamp) ==
  <<walletAddress, nonce, timestamp>>

\* ethers' verifyMessage: the address of the key that signed, when the
\* signature was made over this message; an address nobody holds otherwise.
verifyMessage(message, signature) ==
  IF signature.message = message THEN signature.signer ELSE "0x00"

\* verifyEvmSignature: false when verifyMessage throws.
verifyEvmSignature(walletAddress, message, signature) ==
  /\ signature # Malformed
  /\ toLowerCase(verifyMessage(message, signature))
       = toLowerCase(walletAddress)

\* verifySolanaSignature: the detached signature is checked against the
\* public key the base-58 text walletAddress decodes to; base-58 is case
\* sensitive, so only the exact text of a key's address decodes to that
\* key.  False when a decoding throws.
verifySolanaSignature(walletAddress, message, signature) ==
  /\ signature # Malformed
  /\ signature.message = message
  /\ signature.signer = walletAddress

\* Variant: every signature that decodes is accepted.
verifySignature_AnySigner(walletAddress, walletType, message, signature) ==
  signature # Malformed

verifySignature(walletAddress, walletType, message, signature) ==
  IF walletType = "evm"
    THEN verifyEvmSignature(walletAddress, message, signature)
    ELSE verifySolanaSignature(walletAddress, message, signature)

\* new Date(session.expires_at) < new Date()
isSessionExpired(session) == session.expires_at < now

\* Variant: the verified session keeps the 5-minute lifetime.
verifiedExpiresAt_Short(at) == at + challengeTtlMs

\* new Date(Date.now() + 24 * 60 * 60 * 1000)
verifiedExpiresAt(at) == at + verifiedTtlMs

\* jwtService.sign: the payload names the session; iat is the time of
\* signing.
sign(sessionId) == [sessionId |-> sessionId, iat |-> now]

\* The signatures a client may submit: one that does not decode, and those
\* made by each key over the challenge of each session.
Signatures ==
  {Malformed} \cup
  {[signer |-> w, message |-> sessions[t].challenge_message] :
     w \in Signers, t \in DOMAIN sessions}

\* connect: insert a session with a fresh id and nonce, unverified, expiring
\* in 5 minutes.  A failed insert throws and changes nothing, so only the
\* successful insert is a step.
connect(s, walletAddress, walletType) ==
  /\ s \notin DOMAIN sessions
  /\ sessions' = sessions @@
       (s :> [wallet_address |-> toLowerCase(walletAddress),
              wallet_type |-> walletType,
              challenge_message |-> generateChallenge(walletAddress, s, now),
              is_verified |-> FALSE,
              signature |-> NoSignature,
              session_token |-> NoToken,
              created_at |-> now,
              verified_at |-> 0,
              expires_at |-> now + challengeTtlMs])
  /\ UNCHANGED <<now, started, failures, wpc, wargs, wflags, wresponse,
                 granted, rejected>>
  /\ UNCHANGED outsideWallet

\* Verify call c returns or throws kind, and the request is over.
WFinish(c, rq, fl, kind) ==
  /\ wpc' = [wpc EXCEPT ![c] = "idle"]
  /\ wargs' = [wargs EXCEPT ![c] = NoWArgs]
  /\ wflags' = [wflags EXCEPT ![c] = NoWFlags]
  /\ wresponse' =
       [sessionId |-> rq.sessionId, signature |-> rq.signature,
        kind |-> kind,
        sessionToken |-> IF kind = Granted THEN rq.sessionToken ELSE NoToken,
        flags |-> fl]
  /\ granted' =
       IF kind = Granted THEN [granted EXCEPT ![rq.sessionId] = @ + 1]
       ELSE granted
  /\ rejected' =
       IF kind = ErrBadSignature THEN rejected \cup {rq.sessionId}
       ELSE rejected

\* A client calls verify(sessionId, signature): select the session (single),
\* then the checks, the signature verification and the minting of the token,
\* up to the update.
VerifyLoad(c, sessionId, signature, storeOk) ==
  /\ wpc[c] = "idle"
  /\ started < MaxCalls
  /\ started' = started + 1
  /\ StoreOp(storeOk)
  /\ LET rq == [sessionId |-> sessionId, signature |-> signature,
                sessionToken |-> NoToken]
         fl == [afterGrant |-> granted[sessionId] > 0,
                afterRejection |-> sessionId \in rejected,
                storeFailed |-> ~storeOk]
         found == storeOk /\ sessionId \in DOMAIN sessions
     IN  IF ~found THEN WFinish(c, rq, fl, ErrNoSession)
         ELSE LET session == sessions[sessionId]
              IN  IF isSessionExpired(session)
                    THEN WFinish(c, rq, fl, ErrSessionExpired)
                  ELSE IF session.is_verified
                    THEN WFinish(c, rq, fl, ErrSessionUsed)
                  ELSE IF ~verifySignature(session.wallet_address,
                                           session.wallet_type,
                                           session.challenge_message,
                                           signature)
                    THEN WFinish(c, rq, fl, ErrBadSignature)
                  ELSE /\ wpc' = [wpc EXCEPT ![c] = "update"]
                       /\ wargs' = [wargs EXCEPT ![c] =
                            [rq EXCEPT !.sessionToken = sign(sessionId)]]
                       /\ wflags' = [wflags EXCEPT ![c] = fl]
                       /\ UNCHANGED <<wresponse, granted, rejected>>
  /\ UNCHANGED <<now, sessions>>
  /\ UNCHANGED outsideWallet

\* update wallet_sessions set is_verified, signature, session_token,
\* verified_at, expires_at where id = sessionId; the result of the update is
\* not inspected, and the token is returned.
VerifyUpdate(c, storeOk) ==
  /\ wpc[c] = "update"
  /\ StoreOp(storeOk)
  /\ LET s == wargs[c].sessionId
     IN  sessions' =
           IF storeOk /\ s \in DOMAIN sessions
             THEN [sessions EXCEPT
                     ![s].is_verified = TRUE,
                     ![s].signature = wargs[c].signature,
                     ![s].session_token = wargs[c].sessionToken,
                     ![s].verified_at = now,
                     ![s].expires_at = verifiedExpiresAt(now)]
             ELSE sessions
  /\ WFinish(c, wargs[c],
             [wflags[c] EXCEPT !.storeFailed = @ \/ ~storeOk], Granted)
  /\ UNCHANGED <<now, started>>
  /\ UNCHANGED outsideWallet

verify(c) ==
  \/ \E s \in SessionIds, sig \in Signatures, storeOk \in BOOLEAN :
       VerifyLoad(c, s, sig, storeOk)
  \/ \E storeOk \in BOOLEAN : VerifyUpdate(c, storeOk)

WalletNext ==
  \/ Tick
  \/ \E s \in SessionIds, w \in Wallets : connect(s, w[1], w[2])
  \/ \E c \in Calls : verify(c)

WalletSpec == Init /\ [][WalletNext]_vars

\* ------------------------------------------------------- bets: actions
outsideBets ==
  <<now, quotes, pc, args, response, succeeded, paidLate, flags, lookup,
    walletVars, calc, rateVars>>

\* a < b on JavaScript numbers: false when either is NaN.
LessThan(a, b) == a # NaN /\ b # NaN /\ a < b

\* Variant: only the lower limit is validated.
amountOutOfRange_NoMax(amount) == LessThan(amount, MIN_BET)

\* amount < this.MIN_BET || amount > this.MAX_BET
amountOutOfRange(amount) ==
  LessThan(amount, MIN_BET) \/ LessThan(MAX_BET, amount)

\* The bets table accepts the row: bet_amount DECIMAL NOT NULL (NaN is sent
\* as null) CHECK (bet_amount >= 0.1 AND bet_amount <= 100).
betAmountAccepted(amount) ==
  amount # NaN /\ amount >= MIN_BET /\ amount <= MAX_BET

\* prepareBet: validate the amount, load the prediction (a table not
\* modelled here: found or not), insert the bet.  Nothing of the bets
\* table is read between the awaits, so the call is one step.
prepareBet(b, walletAddress, amount, predictionFound, storeOk) ==
  /\ started < MaxCalls
  /\ started' = started + 1
  /\ b \notin DOMAIN bets
  /\ LET inserts ==
           /\ ~amountOutOfRange(amount)
           /\ predictionFound
           /\ storeOk
           /\ betAmountAccepted(amount)
         kind ==
           IF amountOutOfRange(amount) THEN ErrAmount
           ELSE IF ~predictionFound THEN ErrNoPrediction
           ELSE IF ~inserts THEN ErrCreateBet
           ELSE Prepared
     IN  /\ IF amountOutOfRange(amount) \/ ~predictionFound
              THEN failures' = failures
              ELSE StoreOp(storeOk)
         /\ bets' =
              IF inserts
                THEN bets @@
                  (b :> [user_wallet_address |-> toLowerCase(walletAddress),
                         bet_amount |-> amount,
                         payment_status |-> "pending",
                         payment_tx_hash |-> Null,
                         bet_status |-> "active"])
                ELSE bets
         /\ bresponse' =
              [op |-> "prepareBet",
               betId |-> IF inserts THEN b ELSE NoBetId,
               walletAddress |-> walletAddress, amount |-> amount,
               kind |-> kind, txHash |-> Null]
  /\ UNCHANGED <<bpc, bargs>>
  /\ UNCHANGED outsideBets

\* Variant: the status check lets a confirmed bet through.
isPending_NotFailed(bet) == bet.payment_status # "failed"

\* !(bet.payment_status !== 'pending')
isPending(bet) == bet.payment_status = "pending"

\* Variant: the select is not scoped to the caller.
ownedBy_Anyone(bet, walletAddress) == TRUE

\* .eq('user_wallet_address', walletAddress.toLowerCase())
ownedBy(bet, walletAddress) ==
  bet.user_wallet_address = toLowerCase(walletAddress)

\* confirmBet call c returns or throws kind, and the request is over.
BFinish(c, rq, kind, txHash) ==
  /\ bpc' = [bpc EXCEPT ![c] = "idle"]
  /\ bargs' = [bargs EXCEPT ![c] = NoBArgs]
  /\ bresponse' =
       [op |-> "confirmBet", betId |-> rq.betId,
        walletAddress |-> rq.walletAddress, amount |-> 0,
        kind |-> kind, txHash |-> txHash]

\* A client calls confirmBet(betId, walletAddress, paymentSignature): select
\* the bet by id and owner (single), then the status check.
LoadBet(c, betId, walletAddress, paymentSignature, storeOk) ==
  /\ bpc[c] = "idle"
  /\ started < MaxCalls
  /\ started' = started + 1
  /\ StoreOp(storeOk)
  /\ LET rq == [betId |-> betId, walletAddress |-> walletAddress,
                paymentSignature |-> paymentSignature,
                verification |-> NoVerification]
         found == /\ storeOk
                  /\ betId \in DOMAIN bets
                  /\ ownedBy(bets[betId], walletAddress)
     IN  IF ~found THEN BFinish(c, rq, ErrBetNotFound, Null)
         ELSE IF ~isPending(bets[betId])
           THEN BFinish(c, rq, ErrProcessed, Null)
         ELSE /\ bpc' = [bpc EXCEPT ![c] = "verifyPayment"]
              /\ bargs' = [bargs EXCEPT ![c] = rq]
              /\ UNCHANGED bresponse
  /\ UNCHANGED bets
  /\ UNCHANGED outsideBets

\* await paymentsService.verifyPayment(...): the verifier answers isValid
\* and, when valid, possibly a transaction hash.
verifyPayment(c, isValid, txHash) ==
  /\ bpc[c] = "verifyPayment"
  /\ isValid \/ txHash = Null
  /\ bpc' = [bpc EXCEPT ![c] = IF isValid THEN "markConfirmed"
                                ELSE "markFailed"]
  /\ bargs' = [bargs EXCEPT ![c].verification =
                 [isValid |-> isValid, txHash |-> txHash]]
  /\ UNCHANGED <<bets, bresponse, started, failures>>
  /\ UNCHANGED outsideBets

\* update bets set payment_status = 'failed' where id = betId; the result
\* is not inspected, then the payment-verification error is thrown.
MarkFailed(c, storeOk) ==
  /\ bpc[c] = "markFailed"
  /\ StoreOp(storeOk)
  /\ LET b == bargs[c].betId
     IN  bets' = IF storeOk /\ b \in DOMAIN bets
                   THEN [bets EXCEPT ![b].payment_status = "failed"]
                   ELSE bets
  /\ BFinish(c, bargs[c], ErrPayment, Null)
  /\ UNCHANGED started
  /\ UNCHANGED outsideBets

\* update bets set payment_status = 'confirmed', payment_tx_hash =
\* verification.txHash || null where id = betId, returning the row (single).
MarkConfirmed(c, storeOk) ==
  /\ bpc[c] = "markConfirmed"
  /\ StoreOp(storeOk)
  /\ LET b == bargs[c].betId
         updatedBet ==
           [bets[b] EXCEPT !.payment_status = "confirmed",
                           !.payment_tx_hash = bargs[c].verification.txHash]
     IN  IF storeOk
           THEN /\ bets' = [bets EXCEPT ![b] = updatedBet]
                /\ BFinish(c, bargs[c], Confirmed,
                           updatedBet.payment_tx_hash)
           ELSE /\ UNCHANGED bets
                /\ BFinish(c, bargs[c], ErrUpdateBet, Null)
  /\ UNCHANGED started
  /\ UNCHANGED outsideBets

confirmBet(c) ==
  \/ \E b \in BetIds, w \in BetAddresses, sig \in PaymentSignatures,
        storeOk \in BOOLEAN : LoadBet(c, b, w, sig, storeOk)
  \/ \E isValid \in BOOLEAN, h \in {Null, HashA} :
       verifyPayment(c, isValid, h)
  \/ \E storeOk \in BOOLEAN : MarkFailed(c, storeOk)
  \/ \E storeOk \in BOOLEAN : MarkConfirmed(c, storeOk)

BetsNext ==
  \/ \E b \in BetIds, w \in BetAddresses, amount \in Amounts,
        predictionFound \in BOOLEAN, storeOk \in BOOLEAN :
       prepareBet(b, w, amount, predictionFound, storeOk)
  \/ \E c \in Calls : confirmBet(c)

BetsSpec == Init /\ [][BetsNext]_vars

\* ------------------------------------------------------- odds: actions
\* Odds are counted in ten-thousandths: 1.5 is 15000, 0.01 is 100.
\* ai_predictions.confidence is INTEGER CHECK (confidence >= 0 AND
\* confidence <= 100); ai_predictions.prediction is one of three words.
Confidences == 0..100
BetDirections == {"bullish", "bearish"}
AiPredictions == {"bullish", "bearish", "neutral"}

\* Math.round(x * 100) / 100 on x counted in ten-thousandths: x * 100 is
\* x / 100 hundredths, and Math.round rounds half up.
roundTo2(x) == ((x + 50) \div 100) * 100

\* Variant: the result is not rounded.
calculateOdds_Unrounded(confidence, betDirection, aiPrediction) ==
  IF betDirection = aiPrediction
    THEN 15000 + (100 - confidence) * 80
    ELSE 18000 + confidence * 120

\* Variant: the two branches are exchanged.
calculateOdds_Swapped(confidence, betDirection, aiPrediction) ==
  roundTo2(IF betDirection = aiPrediction
             THEN 18000 + confidence * 120
             ELSE 15000 + (100 - confidence) * 80)

\* 1.5 + (100 - confidence) / 100 * 0.8 with the prediction,
\* 1.8 + confidence / 100 * 1.2 against it, rounded to two decimals.
calculateOdds(confidence, betDirection, aiPrediction) ==
  roundTo2(IF betDirection = aiPrediction
             THEN 15000 + (100 - confidence) * 80
             ELSE 18000 + confidence * 120)

OddsInputs ==
  {[op |-> "calculateOdds", confidence |-> c, betDirection |-> d,
    aiPrediction |-> p, result |-> NoResult] :
     c \in Confidences, d \in BetDirections, p \in AiPredictions}

OddsInit ==
  /\ ServicesInit
  /\ calc \in OddsInputs

\* prepareBet computes the odds of the bet (line 70 of bets.service.ts).
ApplyCalculateOdds ==
  /\ calc.op = "calculateOdds"
  /\ calc.result = NoResult
  /\ calc' = [calc EXCEPT !.result =
                 calculateOdds(calc.confidence, calc.betDirection,
                               calc.aiPrediction)]
  /\ UNCHANGED <<now, quotes, pc, args, started, failures, response,
                 succeeded, paidLate, flags, lookup, walletVars, betVars,
                 rateVars>>

OddsNext == ApplyCalculateOdds

OddsSpec == OddsInit /\ [][OddsNext]_vars

\* ------------------------------------------------ quote amount: actions
\* Shares are counted in hundredths, prices in hundred-thousandths, their
\* product in ten-millionths and amounts in millionths.  A limit price is a
\* sequence: empty when the request carries none.
Shares == {0 - 10000, 0 - 100, 0, 1, 3, 100, 700, 10000}
LimitPrices ==
  {<<>>, <<0>>, <<5>>, <<15>>, <<12345>>, <<52000>>, <<0 - 52000>>}

\* Number(config.get('X402_DEFAULT_PRICE') ?? 0.52)
defaultPrice == 52000

\* Number(x.toFixed(6)) on the product of two doubles, x in ten-millionths:
\* the nearest millionth.  When the decimal product is exactly half way,
\* the double product lies on one side or the other, so either neighbour
\* can result.
toFixed6(x) ==
  LET m == IF x < 0 THEN 0 - x ELSE x
      lo == m \div 10
      mags == IF m % 10 < 5 THEN {lo}
              ELSE IF m % 10 > 5 THEN {lo + 1}
              ELSE {lo, lo + 1}
  IN  {IF x < 0 THEN 0 - v ELSE v : v \in mags}

\* Variant: a request without a limit price is priced at 0.
calculateAmount_NoDefault(shares, limitPrice) ==
  LET price == IF limitPrice = <<>> THEN 0 ELSE limitPrice[1]
  IN  {IF v < 0 THEN 0 ELSE v : v \in toFixed6(price * shares)}

\* Math.max(0, Number((price * input.shares).toFixed(6))): the amounts the
\* call can compute.
calculateAmount(shares, limitPrice) ==
  LET price == IF limitPrice = <<>> THEN defaultPrice ELSE limitPrice[1]
  IN  {IF v < 0 THEN 0 ELSE v : v \in toFixed6(price * shares)}

AmountInputs ==
  {[op |-> "createQuote", shares |-> n, limitPrice |-> p, stored |-> 0,
    returned |-> 0] : n \in Shares, p \in LimitPrices}

QuoteInit ==
  /\ ServicesInit
  /\ calc \in AmountInputs

\* createQuote computes the amount (line 120), inserts it in the amount
\* column (line 160) and returns it (line 181).
ApplyCalculateAmount ==
  /\ calc.op = "createQuote"
  /\ \E amount \in calculateAmount(calc.shares, calc.limitPrice) :
       calc' = [calc EXCEPT !.op = "quoteCreated", !.stored = amount,
                            !.returned = amount]
  /\ UNCHANGED <<now, quotes, pc, args, started, failures, response,
                 succeeded, paidLate, flags, lookup, walletVars, betVars,
                 rateVars>>

QuoteNext == ApplyCalculateAmount

QuoteSpec == QuoteInit /\ [][QuoteNext]_vars

\* ------------------------------------------------- rate limit: actions
\* The clock of the guard advances.
RateTick ==
  /\ now < MaxRateTicks * RateTickMs
  /\ now' = now + RateTickMs
  /\ UNCHANGED <<quotes, pc, args, started, failures, response, succeeded,
                 paidLate, flags, lookup, walletVars, betVars, calc,
                 rateVars>>

\* `key:${apiKey}` when the request carries an API key, `ip:${ip}` with the
\* address or 'unknown' otherwise.
getClientId(request) ==
  IF request.apiKey # Null THEN "key:k1"
  ELSE IF request.ip # Null THEN "ip:10.0.0.1"
  ELSE "ip:unknown"

\* The options of the handlers: those @RateLimit sets, and the default.
RateOptions ==
  {[limit |-> l, windowMs |-> defaultWindowMs] :
     l \in (1..MaxLimit) \cup {defaultLimit}}

\* Variant: the limit is compared one request too late.
limitReached_Above(record, options) == record.count > options.limit

\* record.count >= options.limit
limitReached(record, options) == record.count >= options.limit

\* canActivate: open a window for a client without a record or whose
\* record's resetTime has passed; otherwise throw 429 when the limit is
\* reached, and count the request when it is not.
canActivate(request, options) ==
  /\ started < MaxCalls
  /\ started' = started + 1
  /\ LET clientId == getClientId(request)
         hadRecord == clientId \in DOMAIN requestRecords
         record == IF hadRecord THEN requestRecords[clientId] ELSE NoRecord
         opens == ~hadRecord \/ now > record.resetTime
         throws == ~opens /\ limitReached(record, options)
         admitted ==
           IF clientId \in DOMAIN admits THEN admits[clientId] ELSE <<>>
     IN  /\ requestRecords' =
              IF opens
                THEN (clientId :> [count |-> 1,
                                   resetTime |-> now + options.windowMs])
                       @@ requestRecords
              ELSE IF throws THEN requestRecords
              ELSE [requestRecords EXCEPT ![clientId].count = @ + 1]
         /\ decision' =
              [clientId |-> clientId, limit |-> options.limit, at |-> now,
               returned |-> ~throws,
               status |-> IF throws THEN TooManyRequests ELSE 0,
               before |-> record, hadRecord |-> hadRecord]
         /\ admits' =
              IF throws THEN admits
              ELSE (clientId :> Append(admitted, now)) @@ admits
  /\ UNCHANGED <<now, quotes, pc, args, failures, response, succeeded,
                 paidLate, flags, lookup, walletVars, betVars, calc>>

\* cleanupExpiredRecords, run by the interval timer: delete the records
\* whose resetTime has passed.
cleanupExpiredRecords ==
  LET expired ==
        {k \in DOMAIN requestRecords : now > requestRecords[k].resetTime}
  IN  /\ expired # {}
      /\ requestRecords' =
           [k \in DOMAIN requestRecords \ expired |-> requestRecords[k]]
      /\ UNCHANGED <<now, quotes, pc, args, started, failures, response,
                     succeeded, paidLate, flags, lookup, walletVars, betVars,
                     calc, decision, admits>>

RateNext ==
  \/ RateTick
  \/ \E request \in Requests, options \in RateOptions :
       canActivate(request, options)
  \/ cleanupExpiredRecords

RateSpec == Init /\ [][RateNext]_vars

\* ------------------------------------------------------------- claims
\* The errors that report a failed store operation.
PersistenceErrors == {ErrLoad, ErrConfirm}

\* "0x" followed by exactly 64 hex characters.
WellFormed(h) ==
  LET text == HashText(h)
  IN  /\ Len(text) = 66
      /\ SubSeq(text, 1, 2) = <<"0", "x">>
      /\ {text[i] : i \in 3..Len(text)} \subseteq HexChars

\* This step is the initial select of a call and its continuation, and the
\* select succeeds.
LoadStep == started' = started + 1 /\ failures' = failures

\* The request of the call that takes a LoadStep: that of the response when
\* the call answers in the step, that of the call that moved otherwise.
LoadRequest ==
  IF pc' = pc THEN response'.request
  ELSE args'[CHOOSE c \in Calls : pc'[c] # pc[c]]

\* The call that takes a LoadStep answers in that step with kind, from the
\* continuation of the select, and the step writes nothing to the table.
AnswersAtLoad(kind) ==
  /\ pc' = pc
  /\ response'.from = "load"
  /\ response'.kind = kind
  /\ quotes' = quotes

\* C1: no tx hash is ever stored on two different quotes.
C1_TxHashOnOneQuote ==
  \A q1, q2 \in DOMAIN quotes :
    (q1 # q2 /\ quotes[q1].tx_hash # Null) =>
      quotes[q1].tx_hash # quotes[q2].tx_hash

\* C2: of the confirmPayment calls made for one quote with different
\* hashes, at most one ever returns paid, and the hash of the call that
\* returned paid is the one the quote carries.
C2_OneWinnerPerQuote ==
  /\ \A q \in QuoteIds : \A h1, h2 \in TxHashes :
       (<<q, h1>> \in succeeded /\ <<q, h2>> \in succeeded) => h1 = h2
  /\ \A q \in DOMAIN quotes : \A h \in TxHashes :
       <<q, h>> \in succeeded => quotes[q].tx_hash = h

\* C3: a confirmPayment(quoteId, hash) call started after an identical call
\* returned paid returns the same paid result; the only failure granted to
\* it here is that of its own load.
C3_RetryReturnsPaid ==
  response.flags.afterSuccess =>
    \/ response.kind = Paid /\ response.txHash = response.request.txHash
    \/ response.kind = ErrLoad

\* C4: once a quote is paid or expired, its row (status and tx hash) never
\* changes again.
C4_TerminalStatusFrozen ==
  [][\A q \in DOMAIN quotes :
       quotes[q].status \in {"paid", "expired"} => quotes'[q] = quotes[q]]_vars

\* C5: the write that sets status paid happens at a time <= the quote's
\* deadline: no quote is ever written paid after its deadline.
C5_PaidWriteBeforeDeadline == paidLate = {}

\* C6 as claimed: a call made after the quote's deadline has passed fails
\* with Expired.  Granted to the claim here: a failure of the call's own
\* load, and quotes that were written paid after their deadline.
C6_ExpiredWheneverDeadlinePassed ==
  (/\ response.flags.deadlinePassedAtCall
   /\ response.request.quoteId \notin paidLate) =>
    response.kind \in {ErrExpired, ErrLoad}

\* C6 as amended: a call whose load finds the quote in a status other than
\* paid after its deadline has passed takes the expiry branch, whatever the
\* hash, and a call in the expiry branch answers 'Quote expired'.
C6_ExpiredUnlessPaid ==
  [][/\ (/\ LoadStep
         /\ LoadRequest.quoteId \in DOMAIN quotes
         /\ quotes[LoadRequest.quoteId].status # "paid"
         /\ now > quotes[LoadRequest.quoteId].deadline) =>
          \E c \in Calls :
            pc[c] = "idle" /\ pc'[c] = "expire" /\ args'[c] = LoadRequest
     /\ \A c \in Calls :
          (pc[c] = "expire" /\ pc'[c] # "expire") =>
            response'.request = args[c] /\ response'.kind = ErrExpired]_vars

C6_Witness ==
  /\ response.flags.deadlinePassedAtCall
  /\ response.from = "expire"
  /\ ~WellFormed(response.request.txHash)
  /\ response.kind = ErrExpired

\* C7: a call that finds its quote paid with a stored hash different from
\* the submitted one fails with 'already paid with a different txHash' in
\* that step and writes nothing.
C7_DifferentHashConflict ==
  [][(/\ LoadStep
      /\ LoadRequest.quoteId \in DOMAIN quotes
      /\ quotes[LoadRequest.quoteId].status = "paid"
      /\ quotes[LoadRequest.quoteId].tx_hash # LoadRequest.txHash) =>
       AnswersAtLoad(ErrDifferentHash)]_vars

C7_Witness ==
  /\ response.kind = ErrDifferentHash
  /\ response.from = "load"
  /\ response.request.quoteId \in DOMAIN quotes
  /\ quotes[response.request.quoteId].status = "paid"
  /\ quotes[response.request.quoteId].tx_hash # response.request.txHash

\* C8: a call that finds its quote paid after the deadline has passed is
\* answered in that step by the hash comparison alone (the paid result for
\* the stored hash, the different-hash conflict otherwise) and writes
\* nothing, whatever the other calls are doing.
C8_PaidBeatsExpiry ==
  [][(/\ LoadStep
      /\ LoadRequest.quoteId \in DOMAIN quotes
      /\ quotes[LoadRequest.quoteId].status = "paid"
      /\ now > quotes[LoadRequest.quoteId].deadline) =>
       AnswersAtLoad(IF quotes[LoadRequest.quoteId].tx_hash
                          = LoadRequest.txHash
                       THEN Paid ELSE ErrDifferentHash)]_vars

C8_Witness ==
  /\ response.from = "load"
  /\ response.flags.deadlinePassedAtCall
  /\ response.kind = Paid
  /\ response.request.quoteId \notin paidLate
  /\ \E c \in Calls :
       pc[c] # "idle" /\ args[c].quoteId = response.request.quoteId

\* C9: a call that finds its quote quoted and unexpired and carries a hash
\* that is not "0x" + 64 hex characters fails with 'Invalid txHash format'
\* in that step and writes nothing.
C9_MalformedHashRejected ==
  [][(/\ LoadStep
      /\ LoadRequest.quoteId \in DOMAIN quotes
      /\ quotes[LoadRequest.quoteId].status = "quoted"
      /\ now <= quotes[LoadRequest.quoteId].deadline
      /\ ~WellFormed(LoadRequest.txHash)) =>
       AnswersAtLoad(ErrInvalidHash)]_vars

C9_Witness ==
  /\ response.kind = ErrInvalidHash
  /\ response.from = "load"
  /\ ~WellFormed(response.request.txHash)
  /\ quotes[response.request.quoteId].status = "quoted"

\* C10: a call one of whose store operations failed fails with a
\* persistence failure.
C10_StoreFailureSurfaced ==
  response.flags.storeFailed => response.kind \in PersistenceErrors

\* The quotes in status paid that carry hash h.
PaidCarriers(h) ==
  {q \in DOMAIN quotes : quotes[q].status = "paid" /\ quotes[q].tx_hash = h}

\* This step is an assertPaid call whose select succeeds.
LookupStep == lookup' # lookup /\ failures' = failures

\* C11: assertPaid(txHash) returns the payment of a quote that is paid and
\* carries txHash whenever there is one, and fails with 'Payment not
\* confirmed' whenever there is none.  Granted to the claim here: a failure
\* of the call's select.
C11_AssertPaidReturnsPayment ==
  [][LookupStep =>
       IF PaidCarriers(lookup'.txHash) = {}
         THEN lookup'.kind = ErrNotConfirmed
         ELSE /\ lookup'.kind = Paid
              /\ lookup'.quoteId \in PaidCarriers(lookup'.txHash)]_vars

\* The request of the verify call that takes a LoadStep.
VerifyRequest ==
  IF wpc' = wpc THEN [sessionId |-> wresponse'.sessionId,
                      signature |-> wresponse'.signature]
  ELSE LET c == CHOOSE c \in Calls : wpc'[c] # wpc[c]
       IN  [sessionId |-> wargs'[c].sessionId,
            signature |-> wargs'[c].signature]

\* The signature was made over the session's challenge by the key of the
\* address that was passed to connect (the challenge text carries it).
CorrectSignature(session, signature) ==
  /\ signature.signer = session.challenge_message[1]
  /\ signature.message = session.challenge_message

\* The select of the verify call in this step succeeds and returns a
\* session that is unverified and whose expires_at has not passed.
LoadsOpenSession ==
  /\ LoadStep
  /\ VerifyRequest.sessionId \in DOMAIN sessions
  /\ ~sessions[VerifyRequest.sessionId].is_verified
  /\ now <= sessions[VerifyRequest.sessionId].expires_at

\* Verify call c returns in this step.
Returns(c) == wpc[c] = "update" /\ wpc'[c] = "idle"

\* C12: at most one verify call ever succeeds for a session.  Granted to
\* the claim here: no store operation fails.
C12_SingleUseVerify ==
  failures = 0 => \A s \in SessionIds : granted[s] <= 1

\* C13: a verify call made after a verify call on the same session has
\* returned its token fails with 'session already used'.  Granted to the
\* claim here: a failure of the second call's own select.
C13_SecondVerifyAlreadyUsed ==
  (wresponse.flags.afterGrant /\ ~wresponse.flags.storeFailed) =>
    wresponse.kind = ErrSessionUsed

\* C14: a verify call that finds the session open and the signature wrong
\* fails with 'signature verification failed' and leaves the session as it
\* was, unverified and expiring 5 minutes after its creation; a verify call
\* that finds the session open and the signature correct goes on to the
\* update, and a call that reaches the update returns its token.
C14_RejectedSignatureRetry ==
  [][/\ (/\ LoadsOpenSession
         /\ ~CorrectSignature(sessions[VerifyRequest.sessionId],
                              VerifyRequest.signature)) =>
          /\ wpc' = wpc
          /\ wresponse'.kind = ErrBadSignature
          /\ sessions' = sessions
          /\ sessions'[VerifyRequest.sessionId].expires_at
               = sessions'[VerifyRequest.sessionId].created_at + 300000
     /\ (/\ LoadsOpenSession
         /\ CorrectSignature(sessions[VerifyRequest.sessionId],
                             VerifyRequest.signature)) =>
          \E c \in Calls : wpc[c] = "idle" /\ wpc'[c] = "update"
     /\ \A c \in Calls :
          Returns(c) =>
            /\ wresponse'.kind = Granted
            /\ wresponse'.sessionId = wargs[c].sessionId
            /\ wresponse'.sessionToken = wargs[c].sessionToken
            /\ wresponse'.sessionToken.sessionId = wargs[c].sessionId]_vars

\* C15: no session is marked verified at a time later than the expiry it
\* was created with.
C15_NoLateVerification ==
  \A s \in DOMAIN sessions :
    sessions[s].is_verified =>
      sessions[s].verified_at <= sessions[s].created_at + challengeTtlMs

\* C16: a verify call that fails writes nothing to the table, and a row
\* changes only in the step in which a verify call on it returns its token:
\* the row is then marked verified with that call's signature and token and
\* expires 24 hours after the time of the write.
C16_OnlySuccessWrites ==
  [][/\ (started' = started + 1 /\ wpc' = wpc) => sessions' = sessions
     /\ \A s \in DOMAIN sessions :
          sessions'[s] # sessions[s] =>
            \E c \in Calls :
              /\ Returns(c)
              /\ wargs[c].sessionId = s
              /\ wresponse'.kind = Granted
              /\ sessions'[s] =
                   [sessions[s] EXCEPT
                      !.is_verified = TRUE,
                      !.signature = wargs[c].signature,
                      !.session_token = wresponse'.sessionToken,
                      !.verified_at = now,
                      !.expires_at = now + 86400000]]_vars

C16_Witness ==
  /\ wresponse.kind = Granted
  /\ rejected # {}
  /\ sessions[wresponse.sessionId].session_token = wresponse.sessionToken
  /\ sessions[wresponse.sessionId].expires_at = now + 86400000

\* This step is the select of a confirmBet call with its continuation.
LoadBetStep ==
  /\ started' = started + 1
  /\ \/ bpc' # bpc
     \/ bresponse'.op = "confirmBet"

\* The request of the confirmBet call that takes a LoadBetStep.
BetRequest ==
  IF bpc' = bpc THEN [betId |-> bresponse'.betId,
                      walletAddress |-> bresponse'.walletAddress]
  ELSE LET c == CHOOSE c \in Calls : bpc'[c] # bpc[c]
       IN  [betId |-> bargs'[c].betId,
            walletAddress |-> bargs'[c].walletAddress]

\* The confirmBet call that takes a LoadBetStep is answered in that step
\* with kind and no transaction hash, and the step writes no bet row.
RejectedAtLoad(kind) ==
  /\ bpc' = bpc
  /\ bresponse'.kind = kind
  /\ bresponse'.txHash = Null
  /\ bets' = bets

\* This step is a prepareBet call.
PrepareStep ==
  /\ started' = started + 1
  /\ bpc' = bpc
  /\ bresponse'.op = "prepareBet"

\* C17: the payment_status of a bet changes only from pending.
C17_StatusChangesOnce ==
  [][\A b \in DOMAIN bets :
       bets'[b].payment_status # bets[b].payment_status =>
         bets[b].payment_status = "pending"]_vars

\* C18: a confirmBet call by the owner whose select returns the bet
\* confirmed fails with 'bet already processed' in that step and writes
\* nothing: payment_status and payment_tx_hash stay as they are.
C18_ConfirmedBetRejected ==
  [][(/\ LoadBetStep
      /\ failures' = failures
      /\ BetRequest.betId \in DOMAIN bets
      /\ bets[BetRequest.betId].user_wallet_address
           = toLowerCase(BetRequest.walletAddress)
      /\ bets[BetRequest.betId].payment_status = "confirmed") =>
       RejectedAtLoad(ErrProcessed)]_vars

C18_Witness ==
  /\ bresponse.kind = ErrProcessed
  /\ bresponse.betId \in DOMAIN bets
  /\ bets[bresponse.betId].payment_status = "confirmed"
  /\ bets[bresponse.betId].payment_tx_hash = HashA

\* C19: a confirmBet call made with an address other than the owner's, or
\* for a bet id that does not exist, fails with 'bet not found' in the step
\* of its select, with the same response in both cases, and writes no bet
\* row.
C19_CrossAccountNotFound ==
  [][(/\ LoadBetStep
      /\ \/ BetRequest.betId \notin DOMAIN bets
         \/ bets[BetRequest.betId].user_wallet_address
              # toLowerCase(BetRequest.walletAddress)) =>
       RejectedAtLoad(ErrBetNotFound)]_vars

C19_Witness ==
  /\ bresponse.kind = ErrBetNotFound
  /\ bresponse.betId \in DOMAIN bets
  /\ bets[bresponse.betId].user_wallet_address
       # toLowerCase(bresponse.walletAddress)
  /\ bets[bresponse.betId].payment_status = "pending"

\* C20: a prepareBet call with an amount below 0.1 or above 100 fails with
\* the amount error and inserts nothing; every row inserted has a stake in
\* [0.1, 100], payment_status pending and bet_status active, and the stake
\* of a row never changes.
C20_StakeValidated ==
  [][/\ (/\ PrepareStep
         /\ bresponse'.amount # NaN
         /\ bresponse'.amount < 10 \/ bresponse'.amount > 10000) =>
          bresponse'.kind = ErrAmount /\ bets' = bets
     /\ \A b \in DOMAIN bets' :
          IF b \in DOMAIN bets
            THEN bets'[b].bet_amount = bets[b].bet_amount
            ELSE /\ bets'[b].bet_amount \in 10..10000
                 /\ bets'[b].payment_status = "pending"
                 /\ bets'[b].bet_status = "active"]_vars

C20_Witness ==
  /\ bresponse.op = "prepareBet"
  /\ bresponse.kind = ErrAmount
  /\ bresponse.amount = 15000
  /\ \E b \in DOMAIN bets : bets[b].bet_amount = 10000

\* The odds of a bet have been computed.
OddsComputed == calc.op = "calculateOdds" /\ calc.result # NoResult

\* C21: for every confidence in 0..100 and every bet direction, the odds
\* lie in [1.5, 2.3] when the direction equals the AI prediction and in
\* [1.8, 3.0] when it differs (an AI prediction of neutral included), and
\* they are a multiple of 0.01.
C21_OddsRanges ==
  OddsComputed =>
    /\ calc.result % 100 = 0
    /\ calc.betDirection = calc.aiPrediction =>
          calc.result >= 15000 /\ calc.result <= 23000
    /\ calc.betDirection # calc.aiPrediction =>
          calc.result >= 18000 /\ calc.result <= 30000

\* Odds of 2.292 with the prediction at confidence 1 were rounded to 2.29.
C21_Witness ==
  /\ OddsComputed
  /\ calc.confidence = 1
  /\ calc.betDirection = calc.aiPrediction
  /\ calc.result = 22900

\* The odds just computed are those of a bet against a predicted direction.
AgainstPrediction ==
  /\ OddsComputed
  /\ calc.aiPrediction \in BetDirections
  /\ calc.betDirection # calc.aiPrediction

\* The odds of the bet in the predicted direction at the same confidence.
OddsWithPrediction ==
  calculateOdds(calc.confidence, calc.aiPrediction, calc.aiPrediction)

QuotedProduct ==
  calc.shares *
    (IF Len(calc.limitPrice) = 0 THEN 52000 ELSE calc.limitPrice[1])

\* C22 as stated: the stored and returned amount of every quote created is
\* shares x (limit price, or the default price) rounded to 6 decimals, and
\* is at least 0.
C22_AmountIsRoundedProduct ==
  calc.op = "quoteCreated" =>
    /\ calc.stored = calc.returned
    /\ calc.returned >= 0
    /\ 10 * calc.returned - QuotedProduct \in (0 - 5)..5

\* C22: the stored and returned amount of every quote created is
\* shares x (limit price, or the default price) rounded to 6 decimals when
\* that product is not negative, and 0 when it is negative.
C22_AmountIsClampedRoundedProduct ==
  calc.op = "quoteCreated" =>
    /\ calc.stored = calc.returned
    /\ IF QuotedProduct < 0
         THEN calc.returned = 0
         ELSE 10 * calc.returned - QuotedProduct \in (0 - 5)..5

\* 100 shares at limit price 0.52 were quoted at 52.000000.
C22_Witness ==
  /\ calc.op = "quoteCreated"
  /\ calc.shares = 10000
  /\ calc.limitPrice = <<52000>>
  /\ calc.returned = 52000000
  /\ calc.stored = 52000000

\* C23: each rejection by confirmPayment reaches the client with the status
\* of its kind: unknown quote 404, malformed hash 400, paid with a different
\* hash and reused hash 409 or 400, expired 400 or 410; status 500 is
\* produced only for persistence failures.
C23_RejectionStatuses ==
  response.kind # Pending =>
    /\ response.kind = ErrNotFound => confirmStatus = 404
    /\ response.kind = ErrInvalidHash => confirmStatus = 400
    /\ response.kind \in {ErrDifferentHash, ErrHashUsed} =>
          confirmStatus \in {409, 400}
    /\ response.kind = ErrExpired => confirmStatus \in {400, 410}
    /\ confirmStatus = 500 => response.kind \in PersistenceErrors

\* C24: for both wallet types, a verify call that finds the session open and
\* carries a signature made over the stored challenge by the key of the
\* address passed to connect is not rejected for its signature and goes on
\* to the update; the address stored for the signature check of a Solana
\* session is the address passed to connect.
C24_ValidSignatureAccepted ==
  [][/\ (/\ LoadsOpenSession
         /\ CorrectSignature(sessions[VerifyRequest.sessionId],
                             VerifyRequest.signature)) =>
          /\ ~(wpc' = wpc /\ wresponse'.kind = ErrBadSignature)
          /\ \E c \in Calls : wpc[c] = "idle" /\ wpc'[c] = "update"
     /\ \A s \in DOMAIN sessions' :
          sessions'[s].wallet_type = "solana" =>
            sessions'[s].wallet_address = sessions'[s].challenge_message[1]
    ]_vars

\* C25: a signature made for the challenge of one session never makes
\* verify succeed on another session: the challenge texts of two sessions
\* always differ, and a verify call goes on to mark a session verified only
\* with a signature made over that session's own challenge text.
C25_NoCrossSessionReplay ==
  [][/\ \A s1, s2 \in DOMAIN sessions' :
          s1 # s2 =>
            sessions'[s1].challenge_message # sessions'[s2].challenge_message
     /\ \A c \in Calls :
          (wpc[c] = "idle" /\ wpc'[c] = "update") =>
            wargs'[c].signature.message
              = sessions[wargs'[c].sessionId].challenge_message
     /\ \A c \in Calls :
          Returns(c) => wresponse'.sessionId = wargs[c].sessionId]_vars

\* Two sessions of one address were created at the same time, and the
\* signature its key made over the challenge of the one was rejected on the
\* other.
C25_Witness ==
  /\ wresponse.kind = ErrBadSignature
  /\ \E s1 \in DOMAIN sessions :
       /\ s1 # wresponse.sessionId
       /\ wresponse.signature.message = sessions[s1].challenge_message
       /\ wresponse.signature.signer = sessions[s1].challenge_message[1]
       /\ sessions[s1].wallet_type = "evm"
       /\ sessions[s1].challenge_message[1]
            = sessions[wresponse.sessionId].challenge_message[1]
       /\ sessions[s1].challenge_message[3]
            = sessions[wresponse.sessionId].challenge_message[3]

\* C30: verify returns a token only if the session row was persisted as
\* verified: no token has been handed out for a session that is unverified
\* in the store.
C30_TokenOnlyIfPersisted ==
  \A s \in SessionIds :
    granted[s] > 0 => s \in DOMAIN sessions /\ sessions[s].is_verified

\* C28: once a confirmPayment(quoteId, hash) call has returned success,
\* every later assertPaid(hash) whose select does not fail succeeds and
\* returns that quoteId.
C28_ConfirmedStaysConfirmed ==
  [][\A q \in QuoteIds, h \in TxHashes :
       (/\ LookupStep
        /\ lookup'.txHash = h
        /\ <<q, h>> \in succeeded) =>
         lookup'.kind = Paid /\ lookup'.quoteId = q]_vars

\* C29: a quote carries a tx hash if and only if its status is paid.
C29_TxHashIffPaid ==
  \A q \in DOMAIN quotes :
    quotes[q].tx_hash # Null <=> quotes[q].status = "paid"

\* The number of requests of client k admitted at times from lo to hi.
AdmittedBetween(k, lo, hi) ==
  IF k \in DOMAIN admits'
    THEN Cardinality({i \in 1..Len(admits'[k]) :
                        admits'[k][i] >= lo /\ admits'[k][i] <= hi})
    ELSE 0

\* C26: the guard admits at most limit requests per client within one
\* window.  For a request of client k at time t under a limit: when k has
\* no record, or t is after the record's resetTime, the request is admitted
\* and opens a window of 60 seconds with count 1; otherwise it is admitted
\* when fewer than limit requests were counted in the window, and the
\* counter grows by one, and it is rejected with 429, the records
\* unchanged, when limit requests were counted.  After an admitted request
\* the requests of k admitted in its window, up to and including resetTime,
\* are as many as the counter says and at most limit.
C26_AtMostLimitPerWindow ==
  [][started' = started + 1 =>
       LET k == decision'.clientId
           t == decision'.at
           limit == decision'.limit
           inWindow == k \in DOMAIN requestRecords
                         /\ t <= requestRecords[k].resetTime
       IN  /\ t = now
           /\ ~inWindow =>
                /\ decision'.returned
                /\ requestRecords'[k] = [count |-> 1, resetTime |-> t + 60000]
           /\ (inWindow /\ requestRecords[k].count < limit) =>
                /\ decision'.returned
                /\ requestRecords'[k] =
                     [requestRecords[k] EXCEPT !.count = @ + 1]
           /\ (inWindow /\ requestRecords[k].count >= limit) =>
                /\ ~decision'.returned
                /\ decision'.status = 429
                /\ requestRecords' = requestRecords
                /\ admits' = admits
           /\ decision'.returned =>
                /\ AdmittedBetween(k, requestRecords'[k].resetTime - 60000,
                                   requestRecords'[k].resetTime)
                     = requestRecords'[k].count
                /\ requestRecords'[k].count <= limit
           /\ \A other \in DOMAIN requestRecords \ {k} :
                /\ other \in DOMAIN requestRecords'
                /\ requestRecords'[other] = requestRecords[other]]_vars

\* A request under limit 2 was rejected at the very resetTime of a window in
\* which two requests had been admitted.
C26_Witness ==
  /\ decision.status = 429
  /\ decision.limit = 2
  /\ decision.before.count = 2
  /\ decision.at = decision.before.resetTime
  /\ Len(admits[decision.clientId]) = 2
====
